---- MODULE Spec2Model ----
(***************************************************************************)
(* Incremental ETL engine of src/src/etl/incremental.py (IncrementalETL)   *)
(* driven by src/src/cli/etl_incremental.py: watermarks, append-only raw   *)
(* ingestion, windowed daily metrics, offline/online feature stores.       *)
(*                                                                         *)
(* Timestamps are integers counted in ticks, TicksPerDay ticks to a day;   *)
(* tick k * TicksPerDay is the first instant (midnight) of day k.          *)
(* An optional value (Python None / SQL NULL) is a sequence of length 0,   *)
(* a present value v is <<v>>.                                             *)
(***************************************************************************)
EXTENDS Integers, Sequences, FiniteSets, TLC

\* ------------------------------------------------------------------ bounds
MaxDay == 2
MaxRuns == 2

\* ------------------------------------------------------------------ inputs
\* --reprocess-days as main() hands it to run(): 0 (everything) or a window.
WindowChoices == {0, 1}
\* kv_config['FEATURE_VERSION_CURRENT'] as _get_current_feature_version reads
\* it; the key is written outside this program.
FeatureVersions == {1, 2}

\* ------------------------------------------------------- program constants
TicksPerDay == 2
PROJECT_ID == 1
FeatureWindowDays == 30
ErrorTypesTop == 5

Sources == {"pipelines", "jobs"}

\* The registry's feature_schema_v<version>.json files, which build_features
\* never opens: 'features' is what train_model kept of its six columns, here
\* all of them for version 1 and, for version 2, those of a training frame
\* that had no stage_deploy column.
FeatureSchemas ==
    [v \in FeatureVersions |->
        IF v = 1
        THEN {"dur_total", "stage_build", "stage_test", "stage_deploy",
              "fail_rate", "max_retries"}
        ELSE {"dur_total", "stage_build", "stage_test",
              "fail_rate", "max_retries"}]

\* ------------------------------------------------------------ staged input
\* What the collector may stage: pipelines.json entries and jobs_*.json
\* entries.  `copy` (the entry's place in pipelines.json) and `file` (the
\* jobs_<file>.json an entry lies in) tell apart two staged copies of one
\* event, give the order in which a batch is iterated, and are not part of
\* the event.
P(id, status, updated_at, copy) ==
    [id |-> id, status |-> status, updated_at |-> updated_at, copy |-> copy]

J(id, name, status, created_at, duration, failure_reason, retry, file) ==
    [id |-> id, name |-> name, status |-> status, created_at |-> created_at,
     duration |-> duration, failure_reason |-> failure_reason,
     retry |-> retry, file |-> file]

\* The id of a staged record that has none: row.get('id') is None or NaN.
NoId == 0

PipelinePool ==
    { P(1, "running", 1, 1),
      P(1, "success", 3, 2),       \* pipeline 1 again, updated later
      P(NoId, "success", 2, 3) }   \* a record without its id

JobPool ==
    { J(1, "test", "failed", 3, <<2>>, <<"script_failure">>, <<>>, 1),
      J(1, "test", "failed", 3, <<2>>, <<"script_failure">>, <<>>, 2),
      J(2, "test", "success", 2, <<4>>, <<>>, <<1>>, 1),
      J(3, "build", "canceled", 1, <<>>, <<>>, <<>>, 1),
      J(4, "build", "failed", 4, <<3>>, <<"runner_failure">>, <<2>>, 2) }

\* ------------------------------------------------------------------- state
VARIABLES
    today,              \* datetime.now().date(), as a day number
    staged_pipelines,   \* contents of pipelines.json
    staged_jobs,        \* contents of the jobs_*.json files
    db,                 \* committed tables
    tx,                 \* the tables as the run's connection sees them
    pc,                 \* position of the run
    window,             \* reprocess_window_days of the run
    batch,              \* df_pipelines / df_jobs of the stage in progress
    todo,               \* rows a write loop has still to execute
    computed,           \* the metrics frame / feature_list being written
    runs,               \* runs started so far
    snap,               \* db when the latest write call began
    failedAt,           \* where the latest failure struck, after how many
                        \* statements of the write loop
    lastAgg,            \* the latest committed compute_metrics_daily call
    stats,              \* self.stats of the run
    summary,            \* the statistics run() printed at its end, if any
    exit_code,          \* exit status of the process that just ended
    atStart,            \* db when the run began
    retry,              \* the failed run an unchanged rerun would repeat
    second              \* the locals of a second process running run()

env == <<today, staged_pipelines, staged_jobs>>
vars == <<env, db, tx, pc, window, batch, todo, computed, runs, snap, failedAt,
          lastAgg, stats, summary, exit_code, atStart, retry, second>>

Day(ts) == ts \div TicksPerDay

EmptyDb ==
    [pipelines_raw |-> {}, jobs_raw |-> {}, processing_watermarks |-> {},
     metrics_daily |-> {}, features_offline |-> {}, features_online |-> {}]

RawTable(source) == IF source = "pipelines" THEN "pipelines_raw" ELSE "jobs_raw"
Staged(source) == IF source = "pipelines" THEN staged_pipelines ELSE staged_jobs
EventTs(source, e) == IF source = "pipelines" THEN e.updated_at ELSE e.created_at

\* ---------------------------------------------------------- connection
\* psycopg2 without autocommit: a statement changes only the connection's
\* view; the committed tables change at conn.commit().
VisibleAutocommit(committed, working) == working

Visible(committed, working) == committed

\* ------------------------------------------------------------- watermark
get_watermark(tables, source) ==
    LET rows == {r \in tables.processing_watermarks : r.source = source}
    IN  IF rows = {} THEN <<>> ELSE <<(CHOOSE r \in rows : TRUE).last_ts>>

update_watermark_every_source(tables, source, last_ts) ==
    [tables EXCEPT !.processing_watermarks =
        {[source |-> s, last_ts |-> last_ts] : s \in Sources}]

\* INSERT INTO processing_watermarks ... ON CONFLICT (source) DO UPDATE
\* SET last_ts = EXCLUDED.last_ts
update_watermark(tables, source, last_ts) ==
    [tables EXCEPT !.processing_watermarks =
        {r \in @ : r.source # source}
            \cup {[source |-> source, last_ts |-> last_ts]}]

SetMin(S) == CHOOSE x \in S : \A y \in S : x <= y

SetMax(S) == CHOOSE x \in S : \A y \in S : y <= x

\* ------------------------------------------------------------ raw loading
load_new_raw_older(source, last_ts) ==
    IF last_ts = <<>>
    THEN Staged(source)
    ELSE {e \in Staged(source) : EventTs(source, e) < last_ts[1]}

load_new_raw_inclusive(source, last_ts) ==
    IF last_ts = <<>>
    THEN Staged(source)
    ELSE {e \in Staged(source) : EventTs(source, e) >= last_ts[1]}

\* df = df[df[ts] > last_ts], only `if last_ts`
load_new_raw(source, last_ts) ==
    IF last_ts = <<>>
    THEN Staged(source)
    ELSE {e \in Staged(source) : EventTs(source, e) > last_ts[1]}

PipelineRow(e) ==
    [id |-> e.id, project_id |-> PROJECT_ID, status |-> e.status,
     updated_at |-> e.updated_at]

JobRow(e) ==
    [id |-> e.id, project_id |-> PROJECT_ID, name |-> e.name,
     status |-> e.status, duration |-> e.duration,
     failure_reason |-> e.failure_reason,
     retry_count |-> IF e.retry = <<>> THEN 0 ELSE e.retry[1],
     created_at |-> e.created_at]

RawRow(source, e) == IF source = "pipelines" THEN PipelineRow(e) ELSE JobRow(e)

InsertRawNoConflictCheck(table, row) == table \cup {row}

InsertRawOverwrite(table, row) == {r \in table : r.id # row.id} \cup {row}

\* INSERT ... ON CONFLICT (id) DO NOTHING
InsertRaw(table, row) ==
    IF \E r \in table : r.id = row.id THEN table ELSE table \cup {row}

\* ------------------------------------------------------------ arithmetic
\* Exact fractions <<numerator, denominator>> in lowest terms stand for the
\* floats of the metrics and feature columns.
RECURSIVE Gcd(_, _)
Gcd(a, b) == IF b = 0 THEN a ELSE Gcd(b, a % b)

Frac(n, d) ==
    LET g == Gcd(IF n < 0 THEN -n ELSE n, d)
    IN  IF n = 0 THEN <<0, 1>> ELSE <<n \div g, d \div g>>

FracAdd(x, y) == Frac(x[1] * y[2] + y[1] * x[2], x[2] * y[2])
FracMul(x, y) == Frac(x[1] * y[1], x[2] * y[2])

RECURSIVE FracSum(_)
FracSum(S) ==
    IF S = <<>> THEN <<0, 1>> ELSE FracAdd(Head(S), FracSum(Tail(S)))

RECURSIVE IntSum(_)
IntSum(S) == IF S = <<>> THEN 0 ELSE Head(S) + IntSum(Tail(S))

\* The rows of a table as a sequence, ordered by a rank that tells them apart.
RECURSIVE SeqBy(_, _)
SeqBy(S, rank) ==
    IF S = {} THEN <<>>
    ELSE LET r == CHOOSE x \in S : \A y \in S : rank[x] <= rank[y]
         IN  <<r>> \o SeqBy(S \ {r}, rank)

\* Series.quantile(q) with linear interpolation, q = pct / 100, over the
\* ascending values v; None for an empty series.
Quantile(v, pct) ==
    IF v = <<>> THEN <<>>
    ELSE LET h == (Len(v) - 1) * pct
             lo == h \div 100
             rem == h % 100
         IN  IF rem = 0 THEN <<Frac(v[lo + 1], 1)>>
             ELSE <<Frac(100 * v[lo + 1] + rem * (v[lo + 2] - v[lo + 1]), 100)>>

\* ----------------------------------------------------------- daily metrics
\* The SELECT of compute_metrics_daily: the jobs_raw rows of the window.
MetricsWindowRows(tables, window_days, end_date) ==
    IF window_days = 0
    THEN {r \in tables.jobs_raw :
            /\ r.project_id = PROJECT_ID
            /\ r.created_at <= (end_date + 1) * TicksPerDay}
    ELSE {r \in tables.jobs_raw :
            /\ r.project_id = PROJECT_ID
            /\ r.created_at >= (end_date - window_days) * TicksPerDay
            /\ r.created_at < (end_date + 1) * TicksPerDay}

MetricKey(r) == <<r.project_id, r.name, Day(r.created_at)>>

BuildsSuccessOnly(group) ==
    Cardinality({r \in group : r.status = "success"})

\* builds: (x == 'success').sum() + (x == 'failed').sum()
Builds(group) ==
    Cardinality({r \in group : r.status = "success"})
        + Cardinality({r \in group : r.status = "failed"})

FailsNotSuccess(group) == Cardinality({r \in group : r.status # "success"})

\* fails: (x == 'failed').sum()
Fails(group) == Cardinality({r \in group : r.status = "failed"})

\* The non-null durations of a group, ascending.
Durations(group) ==
    LET rows == {r \in group : r.duration # <<>>}
        ordered == SeqBy(rows, [r \in rows |->
                                  r.duration[1] * (Cardinality(JobPool) + 1) + r.id])
    IN  [i \in 1..Len(ordered) |-> ordered[i].duration[1]]

\* failure_reason.value_counts().head(5): reason -> count, as a set of pairs.
ErrorTypes(group) ==
    LET reasons == {r.failure_reason[1] :
                        r \in {q \in group : q.failure_reason # <<>>}}
        count(x) == Cardinality({r \in group : r.failure_reason = <<x>>})
        all == {<<x, count(x)>> : x \in reasons}
    IN  IF Cardinality(all) <= ErrorTypesTop THEN all
        ELSE CHOOSE T \in SUBSET all :
                /\ Cardinality(T) = ErrorTypesTop
                /\ \A a \in T, b \in all \ T : a[2] >= b[2]

\* One row of the aggregated frame (the derived columns).
MetricOf(key, group) ==
    LET d == Durations(group)
    IN  [project_id |-> key[1], job_name |-> key[2], day |-> key[3],
         builds |-> Builds(group),
         fails |-> Fails(group),
         p95_duration |-> Quantile(d, 95),
         p99_duration |-> Quantile(d, 99),
         avg_duration |-> IF d = <<>> THEN <<>>
                          ELSE <<Frac(IntSum(d), Len(d))>>,
         total_duration |-> Frac(IntSum(d), 1),
         max_retries |-> SetMax({r.retry_count : r \in group}),
         error_types |-> ErrorTypes(group)]

\* df.groupby(['project_id', 'job_name', 'day']).agg(...)
Aggregate(rows) ==
    {MetricOf(k, {r \in rows : MetricKey(r) = k}) : k \in {MetricKey(r) : r \in rows}}

\* CURRENT_TIMESTAMP of the run's transactions.
CurrentTimestamp == <<today, runs>>

UpsertMetricAccumulate(table, m, ts) ==
    LET same(r) == /\ r.project_id = m.project_id
                   /\ r.job_name = m.job_name
                   /\ r.day = m.day
        old == {r \in table : same(r)}
        before == IF old = {} THEN 0 ELSE (CHOOSE r \in old : TRUE).builds
        row == [project_id |-> m.project_id, job_name |-> m.job_name,
                day |-> m.day, builds |-> before + m.builds,
                fails |-> m.fails,
                p95_duration |-> m.p95_duration,
                p99_duration |-> m.p99_duration,
                avg_duration |-> m.avg_duration,
                total_duration |-> m.total_duration,
                max_retries |-> m.max_retries,
                error_types |-> m.error_types, updated_at |-> ts]
    IN  {r \in table : ~same(r)} \cup {row}

UpsertMetricSumFails(table, m, ts) ==
    LET same(r) == /\ r.project_id = m.project_id
                   /\ r.job_name = m.job_name
                   /\ r.day = m.day
        old == {r \in table : same(r)}
        before == IF old = {} THEN 0 ELSE (CHOOSE r \in old : TRUE).fails
    IN  {r \in table : ~same(r)}
            \cup {[m EXCEPT !.fails = before + @] @@ [updated_at |-> ts]}

\* INSERT INTO metrics_daily ... ON CONFLICT (project_id, job_name, day)
\* DO UPDATE SET <derived columns>, updated_at = CURRENT_TIMESTAMP
UpsertMetric(table, m, ts) ==
    LET same(r) == /\ r.project_id = m.project_id
                   /\ r.job_name = m.job_name
                   /\ r.day = m.day
        row == [project_id |-> m.project_id, job_name |-> m.job_name,
                day |-> m.day, builds |-> m.builds, fails |-> m.fails,
                p95_duration |-> m.p95_duration,
                p99_duration |-> m.p99_duration,
                avg_duration |-> m.avg_duration,
                total_duration |-> m.total_duration,
                max_retries |-> m.max_retries,
                error_types |-> m.error_types, updated_at |-> ts]
    IN  {r \in table : ~same(r)} \cup {row}

\* groupby sorts its keys: the order in which metrics.iterrows() runs.
NameOrder == <<"build", "test">>
NameRank(n) == CHOOSE i \in 1..Len(NameOrder) : NameOrder[i] = n

\* ---------------------------------------------------------------- features
\* The SELECT of build_features: the metrics_daily rows of the window.
FeatureWindowRows(tables, window_days, end_date) ==
    IF window_days = 0
    THEN {m \in tables.metrics_daily :
            m.project_id = PROJECT_ID /\ m.day <= end_date}
    ELSE {m \in tables.metrics_daily :
            /\ m.project_id = PROJECT_ID
            /\ m.day >= end_date - window_days
            /\ m.day <= end_date}

\* Series.mean() of an optional column over the rows of a group (skipna).
MeanOf(group, col) ==
    LET rows == {m \in group : m[col] # <<>>}
        ordered == SeqBy(rows, [m \in rows |-> m.day])
        vals == [i \in 1..Len(ordered) |-> ordered[i][col][1]]
    IN  IF rows = {} THEN <<>>
        ELSE <<FracMul(FracSum(vals), Frac(1, Len(vals)))>>

SumOf(group, col) ==
    LET ordered == SeqBy(group, [m \in group |-> m.day])
    IN  IntSum([i \in 1..Len(ordered) |-> ordered[i][col]])

fail_rate_unsmoothed(fails, builds) == Frac(fails, builds)

\* features['fail_rate'] = features['fails'] / (features['builds'] + 1)
fail_rate(fails, builds) == Frac(fails, builds + 1)

stage_part_thirds(avg_duration, n, d) ==
    IF avg_duration = <<>> THEN <<0, 1>>
    ELSE FracMul(avg_duration[1], Frac(1, 3))

\* float(row['avg_duration']) * (n / d) if pd.notna(row['avg_duration'])
\* else 0.0
stage_part(avg_duration, n, d) ==
    IF avg_duration = <<>> THEN <<0, 1>>
    ELSE FracMul(avg_duration[1], Frac(n, d))

\* One entry of feature_list.
FeatureOf(name, group, feature_version, end_date) ==
    LET builds == SumOf(group, "builds")
        fails == SumOf(group, "fails")
        p95 == MeanOf(group, "p95_duration")
        avg == MeanOf(group, "avg_duration")
    IN  [entity_key |-> <<PROJECT_ID, name>>,
         feature_version |-> feature_version,
         payload |->
            [dur_total |-> IF p95 = <<>> THEN <<0, 1>> ELSE p95[1],
             stage_build |-> stage_part(avg, 4, 10),
             stage_test |-> stage_part(avg, 5, 10),
             stage_deploy |-> stage_part(avg, 1, 10),
             fail_rate |-> fail_rate(fails, builds),
             max_retries |-> SetMax({m.max_retries : m \in group})],
         event_time |-> end_date * TicksPerDay]

\* df.groupby(['project_id', 'job_name']).agg(...) and the payload loop.
FeatureList(rows, feature_version, end_date) ==
    {FeatureOf(n, {m \in rows : m.job_name = n}, feature_version, end_date) :
        n \in {m.job_name : m \in rows}}

\* INSERT INTO features_offline ... ON CONFLICT (entity_key, feature_version)
\* DO UPDATE SET payload, event_time
UpsertOffline(table, f) ==
    {r \in table : ~(r.entity_key = f.entity_key
                     /\ r.feature_version = f.feature_version)}
        \cup {[entity_key |-> f.entity_key,
               feature_version |-> f.feature_version,
               payload |-> f.payload, event_time |-> f.event_time]}

UpsertOnlineKeepFirst(table, f, ts) ==
    IF \E r \in table : r.entity_key = f.entity_key THEN table
    ELSE table \cup {[entity_key |-> f.entity_key,
                      feature_version |-> f.feature_version,
                      payload |-> f.payload, updated_at |-> ts]}

\* INSERT INTO features_online ... ON CONFLICT (entity_key)
\* DO UPDATE SET feature_version, payload, updated_at = CURRENT_TIMESTAMP
UpsertOnline(table, f, ts) ==
    {r \in table : r.entity_key # f.entity_key}
        \cup {[entity_key |-> f.entity_key,
               feature_version |-> f.feature_version,
               payload |-> f.payload, updated_at |-> ts]}


\* ------------------------------------------------------------- the run
StageAfterWatermarkFirst(p) ==
    CASE p = "LoadPipelines" -> "WatermarkPipelines"
      [] p = "WatermarkPipelines" -> "AppendPipelines"
      [] p = "AppendPipelines" -> "LoadJobs"
      [] p = "LoadJobs" -> "WatermarkJobs"
      [] p = "WatermarkJobs" -> "AppendJobs"
      [] p = "AppendJobs" -> "Aggregate"
      [] p = "Aggregate" -> "UpsertMetrics"
      [] p = "UpsertMetrics" -> "BuildFeatures"
      [] p = "BuildFeatures" -> "WriteOffline"
      [] p = "WriteOffline" -> "WriteOnline"
      [] OTHER -> "Done"

\* run(): the step that follows each step.
StageAfter(p) ==
    CASE p = "LoadPipelines" -> "AppendPipelines"
      [] p = "AppendPipelines" -> "WatermarkPipelines"
      [] p = "WatermarkPipelines" -> "LoadJobs"
      [] p = "LoadJobs" -> "AppendJobs"
      [] p = "AppendJobs" -> "WatermarkJobs"
      [] p = "WatermarkJobs" -> "Aggregate"
      [] p = "Aggregate" -> "UpsertMetrics"
      [] p = "UpsertMetrics" -> "BuildFeatures"
      [] p = "BuildFeatures" -> "WriteOffline"
      [] p = "WriteOffline" -> "WriteOnline"
      [] OTHER -> "Done"

SourceOf(p) ==
    IF p \in {"LoadPipelines", "AppendPipelines", "WatermarkPipelines"}
    THEN "pipelines" ELSE "jobs"

AfterSourceSkipsJobs(source) == "Aggregate"

\* What follows a source whose batch is empty.
AfterSource(source) == IF source = "pipelines" THEN "LoadJobs" ELSE "Aggregate"

FeatureWindowSameAsMetrics(reprocess_window_days) == reprocess_window_days

\* feature_window = 0 if reprocess_window_days == 0 else 30
FeatureWindow(reprocess_window_days) ==
    IF reprocess_window_days = 0 THEN 0 ELSE FeatureWindowDays

AfterSelectEmptyIsError(p, rows) ==
    IF rows = {} THEN "Failed" ELSE StageAfter(p)

\* rows = cur.fetchall(); `if not rows: return 0`: compute_metrics_daily
\* returns to run(), which goes on to build_features; build_features returns
\* to run(), which prints its summary and ends.
AfterSelect(p, rows) ==
    IF rows = {}
    THEN (IF p = "Aggregate" THEN "BuildFeatures" ELSE "Done")
    ELSE StageAfter(p)

NoAgg == [n |-> 0]
NoFailure == [pc |-> "none", n |-> 0, cause |-> "none"]
NoRetry == [n |-> 0]

\* __init__: self.stats (duration_sec, a wall-clock reading, left out).
NewStats ==
    [rows_read |-> 0, rows_processed |-> 0, rows_written |-> 0,
     window_reprocessed |-> FALSE, last_ts |-> <<>>]

\* The locals of a process that is not inside run().
IdleRun ==
    [pc |-> "Idle", window |-> 0, batch |-> {}, todo |-> {}, computed |-> {},
     stats |-> NewStats, summary |-> <<>>, snap |-> EmptyDb]

Init ==
    /\ today = 1
    /\ staged_pipelines = {}
    /\ staged_jobs = {}
    /\ db = EmptyDb
    /\ tx = EmptyDb
    /\ pc = "Idle"
    /\ window = 0
    /\ batch = {}
    /\ todo = {}
    /\ computed = {}
    /\ runs = 0
    /\ snap = EmptyDb
    /\ failedAt = NoFailure
    /\ lastAgg = NoAgg
    /\ stats = NewStats
    /\ summary = <<>>
    /\ exit_code = <<>>
    /\ atStart = EmptyDb
    /\ retry = NoRetry
    /\ second = IdleRun

\* The collector stages one more pipeline event (a later copy of an event
\* after its earlier copies).
StagePipeline ==
    /\ pc = "Idle"
    /\ runs < MaxRuns
    /\ \E e \in PipelinePool \ staged_pipelines :
          /\ \A f \in PipelinePool :
                f.id = e.id /\ f.copy < e.copy => f \in staged_pipelines
          /\ staged_pipelines' = staged_pipelines \cup {e}
    /\ retry' = NoRetry
    /\ exit_code' = <<>>
    /\ UNCHANGED <<second, today, staged_jobs, db, tx, pc, window, batch, todo,
                   computed, runs, snap, failedAt, lastAgg, stats, summary,
                   atStart>>

\* The collector stages one more job event (likewise).
StageJob ==
    /\ pc = "Idle"
    /\ runs < MaxRuns
    /\ \E e \in JobPool \ staged_jobs :
          /\ \A f \in JobPool :
                f.id = e.id /\ f.file < e.file => f \in staged_jobs
          /\ staged_jobs' = staged_jobs \cup {e}
    /\ retry' = NoRetry
    /\ exit_code' = <<>>
    /\ UNCHANGED <<second, today, staged_pipelines, db, tx, pc, window, batch, todo,
                   computed, runs, snap, failedAt, lastAgg, stats, summary,
                   atStart>>

\* A day passes.
Tick ==
    /\ pc = "Idle"
    /\ runs < MaxRuns
    /\ today < MaxDay
    /\ today' = today + 1
    /\ retry' = NoRetry
    /\ exit_code' = <<>>
    /\ UNCHANGED <<second, staged_pipelines, staged_jobs, db, tx, pc, window, batch,
                   todo, computed, runs, snap, failedAt, lastAgg, stats,
                   summary, atStart>>

\* main(): `with IncrementalETL(db_url) as etl: etl.run(reprocess_days)`.
Start ==
    /\ pc = "Idle"
    /\ runs < MaxRuns
    /\ runs' = runs + 1
    /\ pc' = "LoadPipelines"
    /\ exit_code' = <<>>
    /\ atStart' = db
    /\ UNCHANGED <<second, env, db, tx, window, batch, todo, computed, snap,
                   failedAt, lastAgg, stats, summary, retry>>

\* run(): get_watermark(source); load_new_raw(source, last_ts).
LoadNew ==
    /\ pc \in {"LoadPipelines", "LoadJobs"}
    /\ LET source == SourceOf(pc)
           df == load_new_raw(source, get_watermark(tx, source))
       IN  /\ batch' = df
           /\ todo' = df
           /\ pc' = IF df = {} THEN AfterSource(source) ELSE StageAfter(pc)
           /\ stats' = IF source = "jobs" /\ Staged(source) = {}
                       THEN stats
                       ELSE [stats EXCEPT !.rows_read = Cardinality(df)]
    /\ snap' = db
    /\ UNCHANGED <<second, env, db, tx, window, computed, runs, failedAt, lastAgg,
                   summary, exit_code, atStart, retry>>

\* df.iterrows(): the next row of a batch, in staged order.
EventPos(source, e) ==
    IF source = "pipelines" THEN e.copy
    ELSE e.file * (Cardinality(JobPool) + 1) + e.id

FirstEvent(source, S) ==
    CHOOSE e \in S : \A f \in S : EventPos(source, e) <= EventPos(source, f)

\* append_raw_to_db: one INSERT of the loop, of a row that has its id.
AppendRow ==
    /\ pc \in {"AppendPipelines", "AppendJobs"}
    /\ todo # {}
    /\ FirstEvent(SourceOf(pc), todo).id # NoId
    /\ LET source == SourceOf(pc)
           e == FirstEvent(source, todo)
           t == RawTable(source)
           working == [tx EXCEPT ![t] = InsertRaw(@, RawRow(source, e))]
       IN  /\ tx' = working
           /\ db' = Visible(db, working)
           /\ todo' = todo \ {e}
    /\ UNCHANGED <<second, env, pc, window, batch, computed, runs, snap, failedAt,
                   lastAgg, stats, summary, exit_code, atStart, retry>>

\* append_raw_to_db: conn.commit() after the loop.
AppendCommit ==
    /\ pc \in {"AppendPipelines", "AppendJobs"}
    /\ todo = {}
    /\ db' = tx
    /\ pc' = StageAfter(pc)
    /\ stats' = [stats EXCEPT !.rows_written = @ + Cardinality(batch)]
    /\ UNCHANGED <<second, env, tx, window, batch, todo, computed, runs, snap,
                   failedAt, lastAgg, summary, exit_code, atStart, retry>>

\* run(): max_ts = df[ts].max(); update_watermark(source, max_ts).
UpdateWatermark ==
    /\ pc \in {"WatermarkPipelines", "WatermarkJobs"}
    /\ LET source == SourceOf(pc)
           max_ts == SetMax({EventTs(source, e) : e \in batch})
           working == update_watermark(tx, source, max_ts)
       IN  /\ tx' = working
           /\ db' = working
           /\ stats' = IF source = "pipelines"
                       THEN [stats EXCEPT !.last_ts = <<max_ts>>]
                       ELSE stats
    /\ pc' = StageAfter(pc)
    /\ UNCHANGED <<second, env, window, batch, todo, computed, runs, snap, failedAt,
                   lastAgg, summary, exit_code, atStart, retry>>

\* compute_metrics_daily: the SELECT, the early return, the groupby.  The
\* run's --reprocess-days, first read here, is drawn here.
ComputeMetrics ==
    /\ pc = "Aggregate"
    /\ \E w \in WindowChoices :
        LET rows == MetricsWindowRows(tx, w, today)
            metrics == Aggregate(rows)
        IN  /\ window' = w
            /\ computed' = metrics
            /\ todo' = metrics
            /\ pc' = AfterSelect(pc, rows)
    /\ snap' = db
    /\ UNCHANGED <<second, env, db, tx, batch, runs, failedAt, lastAgg, stats,
                   summary, exit_code, atStart, retry>>

FirstMetric(S) ==
    CHOOSE m \in S : \A n \in S :
        \/ NameRank(m.job_name) < NameRank(n.job_name)
        \/ m.job_name = n.job_name /\ m.day <= n.day

\* compute_metrics_daily: one upsert of the loop.
UpsertMetricsRow ==
    /\ pc = "UpsertMetrics"
    /\ todo # {}
    /\ LET m == FirstMetric(todo)
           working == [tx EXCEPT !.metrics_daily =
                          UpsertMetric(@, m, CurrentTimestamp)]
       IN  /\ tx' = working
           /\ db' = Visible(db, working)
           /\ todo' = todo \ {m}
    /\ UNCHANGED <<second, env, pc, window, batch, computed, runs, snap, failedAt,
                   lastAgg, stats, summary, exit_code, atStart, retry>>

\* compute_metrics_daily: conn.commit() after the loop.
MetricsCommit ==
    /\ pc = "UpsertMetrics"
    /\ todo = {}
    /\ db' = tx
    /\ pc' = StageAfter(pc)
    /\ lastAgg' =
         LET call == [raw |-> tx.jobs_raw, window |-> window, day |-> today]
         IN  IF lastAgg.n > 0 /\ lastAgg.call = call
             THEN [n |-> 2, call |-> call]
             ELSE [n |-> 1, call |-> call]
    /\ stats' = [stats EXCEPT !.rows_processed = @ + Cardinality(computed),
                           !.window_reprocessed = TRUE]
    /\ UNCHANGED <<second, env, tx, window, batch, todo, computed, runs, snap,
                   failedAt, summary, exit_code, atStart, retry>>

\* run(): _get_current_feature_version(), drawn as it is read;
\* build_features: the SELECT, the early return (after which run() prints its
\* summary), the groupby and the payload loop.
ComputeFeatures ==
    /\ pc = "BuildFeatures"
    /\ \E feature_version \in FeatureVersions :
        LET rows == FeatureWindowRows(tx, FeatureWindow(window), today)
            feature_list == FeatureList(rows, feature_version, today)
        IN  /\ computed' = feature_list
            /\ todo' = feature_list
            /\ pc' = AfterSelect(pc, rows)
            /\ summary' = IF rows = {} THEN <<stats>> ELSE summary
    /\ snap' = db
    /\ UNCHANGED <<second, env, db, tx, window, batch, runs, failedAt, lastAgg,
                   stats, exit_code, atStart, retry>>

FirstFeature(S) ==
    CHOOSE f \in S : \A g \in S :
        NameRank(f.entity_key[2]) <= NameRank(g.entity_key[2])

\* build_features: the offline upsert of one feature.
WriteOffline ==
    /\ pc = "WriteOffline"
    /\ todo # {}
    /\ LET f == FirstFeature(todo)
           working == [tx EXCEPT !.features_offline = UpsertOffline(@, f)]
       IN  /\ tx' = working
           /\ db' = Visible(db, working)
    /\ pc' = StageAfter(pc)
    /\ UNCHANGED <<second, env, window, batch, todo, computed, runs, snap, failedAt,
                   lastAgg, stats, summary, exit_code, atStart, retry>>

\* build_features: the online upsert of the same feature.
WriteOnline ==
    /\ pc = "WriteOnline"
    /\ LET f == FirstFeature(todo)
           working == [tx EXCEPT !.features_online =
                          UpsertOnline(@, f, CurrentTimestamp)]
       IN  /\ tx' = working
           /\ db' = Visible(db, working)
           /\ todo' = todo \ {f}
    /\ pc' = "WriteOffline"
    /\ UNCHANGED <<second, env, window, batch, computed, runs, snap, failedAt,
                   lastAgg, stats, summary, exit_code, atStart, retry>>

\* build_features: conn.commit() after the loop; run() prints its summary.
FeaturesCommit ==
    /\ pc = "WriteOffline"
    /\ todo = {}
    /\ db' = tx
    /\ pc' = "Done"
    /\ stats' = [stats EXCEPT !.rows_processed = @ + Cardinality(computed)]
    /\ summary' = <<stats'>>
    /\ UNCHANGED <<second, env, tx, window, batch, todo, computed, runs, snap,
                   failedAt, lastAgg, exit_code, atStart, retry>>

\* The statements the write loop in progress has executed.
Executed ==
    IF pc \in {"AppendPipelines", "AppendJobs"}
    THEN Cardinality(batch) - Cardinality(todo)
    ELSE IF pc \in {"UpsertMetrics", "WriteOffline", "WriteOnline"}
         THEN Cardinality(computed) - Cardinality(todo)
         ELSE 0

\* What an unchanged rerun of the run in progress would repeat: the tables
\* the run began with, and the window whose metrics it has committed.
RunSoFar ==
    [n |-> 1,
     db0 |-> atStart,
     w |-> IF pc \in {"BuildFeatures", "WriteOffline", "WriteOnline"}
           THEN <<window>> ELSE <<>>]

\* A statement raises: the exception leaves run() and main() (their locals
\* and the IncrementalETL object with its stats are gone, nothing of them
\* printed), and IncrementalETL.__exit__ closes the connection, dropping what
\* it had not committed.
Raise(cause) ==
    /\ failedAt' = [pc |-> pc, n |-> Executed, cause |-> cause]
    /\ retry' = RunSoFar
    /\ pc' = "Failed"
    /\ stats' = NewStats
    /\ tx' = db
    /\ window' = 0
    /\ batch' = {}
    /\ todo' = {}
    /\ computed' = {}
    /\ UNCHANGED <<second, env, db, runs, snap, lastAgg, summary, exit_code,
                   atStart>>

\* Any statement of the run raises (the store is unavailable).
Fail ==
    /\ pc \notin {"Idle", "Done", "Failed"}
    /\ Raise("exception")

\* append_raw_to_db: the INSERT of a row without id raises (id is the key of
\* the raw table), and nothing in the loop catches it.
AppendRaises ==
    /\ pc \in {"AppendPipelines", "AppendJobs"}
    /\ todo # {}
    /\ FirstEvent(SourceOf(pc), todo).id = NoId
    /\ Raise("malformed")

\* main() returns 0 to sys.exit, or the exception reaches the interpreter,
\* which exits with status 1.
Exit ==
    /\ pc \in {"Done", "Failed"}
    /\ pc' = "Idle"
    /\ window' = 0
    /\ batch' = {}
    /\ todo' = {}
    /\ computed' = {}
    /\ snap' = db
    /\ failedAt' = NoFailure
    /\ exit_code' = IF pc = "Done" THEN <<0>> ELSE <<1>>
    /\ stats' = NewStats
    /\ summary' = <<>>
    /\ atStart' = db
    /\ retry' = IF pc = "Done" THEN NoRetry ELSE retry
    /\ UNCHANGED <<second, env, db, tx, runs, lastAgg>>

Next ==
    \/ StagePipeline
    \/ StageJob
    \/ Tick
    \/ Start
    \/ LoadNew
    \/ AppendRow
    \/ AppendCommit
    \/ UpdateWatermark
    \/ ComputeMetrics
    \/ UpsertMetricsRow
    \/ MetricsCommit
    \/ ComputeFeatures
    \/ WriteOffline
    \/ WriteOnline
    \/ FeaturesCommit
    \/ Fail
    \/ AppendRaises
    \/ Exit

Spec == Init /\ [][Next]_vars

\* Two processes run main() against the same store with nothing to keep them
\* apart: the scheduler suspends the one inside run(), between two of its
\* transactions (tx = db: it has no uncommitted statement), in favour of the
\* one not yet inside run(), and resumes it when that one is outside run()
\* again.  The connection of the process that goes on sees the committed
\* tables.
Switch ==
    /\ tx = db
    /\ \/ pc # "Idle" /\ second.pc = "Idle"
       \/ pc = "Idle" /\ second.pc # "Idle"
    /\ second' = [pc |-> pc, window |-> window, batch |-> batch,
                  todo |-> todo, computed |-> computed, stats |-> stats,
                  summary |-> summary, snap |-> snap]
    /\ pc' = second.pc
    /\ window' = second.window
    /\ batch' = second.batch
    /\ todo' = second.todo
    /\ computed' = second.computed
    /\ stats' = second.stats
    /\ summary' = second.summary
    /\ snap' = second.snap
    /\ tx' = db
    /\ UNCHANGED <<env, db, runs, failedAt, lastAgg, exit_code, atStart, retry>>

\* The steps of two processes overlapping within a day, the store staying
\* available.
NextOverlap ==
    \/ StagePipeline
    \/ StageJob
    \/ Start
    \/ LoadNew
    \/ AppendRow
    \/ AppendCommit
    \/ UpdateWatermark
    \/ ComputeMetrics
    \/ UpsertMetricsRow
    \/ MetricsCommit
    \/ ComputeFeatures
    \/ WriteOffline
    \/ WriteOnline
    \/ FeaturesCommit
    \/ AppendRaises
    \/ Exit
    \/ Switch

SpecOverlap == Init /\ [][NextOverlap]_vars

\* ================================================================== claims
RawTables == {"pipelines_raw", "jobs_raw"}
Ids(table) == {r.id : r \in table}

\* C1: a source's watermark changes only in the watermark step of that
\* source, after every event of the batch it was computed from has its id in
\* the committed raw table; and a run that failed in a source's append has
\* left that source's watermark at the value it had when the batch was loaded.
C1_WatermarkAfterAppend ==
    [][\A s \in Sources :
        /\ get_watermark(db', s) # get_watermark(db, s)
             => /\ pc \in {"WatermarkPipelines", "WatermarkJobs"}
                /\ SourceOf(pc) = s
                /\ batch # {}
                /\ \A e \in batch : e.id \in Ids(db[RawTable(s)])
        /\ (pc' = "Failed" /\ pc \in {"AppendPipelines", "AppendJobs"}
                /\ SourceOf(pc) = s)
             => get_watermark(db', s) = get_watermark(snap, s)]_vars

C1_Witness ==
    /\ pc = "Failed"
    /\ failedAt.pc = "AppendJobs"
    /\ failedAt.n > 0
    /\ get_watermark(db, "pipelines") # <<>>
    /\ get_watermark(db, "jobs") = <<>>

\* C2: the stored last_ts of a source, once set, is never removed and never
\* decreases.
C2_WatermarkMonotone ==
    [][\A s \in Sources :
        get_watermark(db, s) # <<>>
          => /\ get_watermark(db', s) # <<>>
             /\ get_watermark(db', s)[1] >= get_watermark(db, s)[1]]_vars

C2_Witness ==
    /\ pc = "Aggregate"
    /\ runs = 2
    /\ get_watermark(snap, "jobs") # <<>>
    /\ get_watermark(db, "jobs")[1] > get_watermark(snap, "jobs")[1]

\* C3: each raw table holds at most one row per id, and after an append has
\* committed the ids stored are exactly those stored before plus those of the
\* batch, also when the batch repeats ids already stored or repeats an id
\* within itself.
C3_OneRowPerId ==
    /\ \A t \in RawTables : \A r1, r2 \in db[t] : r1.id = r2.id => r1 = r2
    /\ pc \in {"WatermarkPipelines", "WatermarkJobs"}
         => LET t == RawTable(SourceOf(pc))
            IN  /\ Ids(db[t]) = Ids(snap[t]) \cup {e.id : e \in batch}
                /\ Cardinality(db[t]) = Cardinality(Ids(db[t]))

C3_Witness ==
    /\ pc = "WatermarkJobs"
    /\ \E e1, e2 \in batch : e1 # e2 /\ e1.id = e2.id
    /\ \E e \in batch : e.id \in Ids(snap.jobs_raw)
    /\ Cardinality(db.jobs_raw) = Cardinality({e.id : e \in staged_jobs})

\* C4: no step removes or changes a committed raw row.
C4_RawRowsImmutable ==
    [][\A t \in RawTables : db[t] \subseteq db'[t]]_vars

C4_Witness ==
    /\ pc = "WatermarkPipelines"
    /\ \E e \in batch : \E r \in snap.pipelines_raw :
          r.id = e.id /\ r.status # e.status /\ r \in db.pipelines_raw

\* C5: when a run ends in Done, every event staged when it started (and
\* having an id) has its id in the raw table of its source.  (No event is staged while a run is in
\* progress.)
C5_EveryStagedEventStored ==
    pc = "Done"
        => \A s \in Sources : \A e \in Staged(s) :
              e.id # NoId => e.id \in Ids(db[RawTable(s)])

\* C6: a run that failed inside append_raw_to_db has left both raw tables as
\* they were when that call began, and a run that failed inside the upsert
\* loop of compute_metrics_daily has left metrics_daily as it was when that
\* call began, however many statements of the loop had been executed.
C6_WriteCallsAtomic ==
    pc = "Failed"
        => /\ failedAt.pc \in {"AppendPipelines", "AppendJobs"}
                => /\ db.pipelines_raw = snap.pipelines_raw
                   /\ db.jobs_raw = snap.jobs_raw
           /\ failedAt.pc = "UpsertMetrics"
                => db.metrics_daily = snap.metrics_daily

C6_Witness ==
    /\ pc = "Failed"
    /\ failedAt.pc = "UpsertMetrics"
    /\ failedAt.n > 0
    /\ db.metrics_daily # {}

\* The call compute_metrics_daily(window) of the run in progress repeats the
\* latest committed call: same window, same day, same jobs_raw.
RepeatsLastAgg ==
    /\ lastAgg.n > 0
    /\ lastAgg.call = [raw |-> db.jobs_raw, window |-> window, day |-> today]

MetricsCommitStep == pc = "UpsertMetrics" /\ pc' = "BuildFeatures"

\* The derived columns of metrics_daily: every column but updated_at.
Derived(table) ==
    {[project_id |-> m.project_id, job_name |-> m.job_name, day |-> m.day,
      builds |-> m.builds, fails |-> m.fails,
      p95_duration |-> m.p95_duration, p99_duration |-> m.p99_duration,
      avg_duration |-> m.avg_duration, total_duration |-> m.total_duration,
      max_retries |-> m.max_retries, error_types |-> m.error_types] :
        m \in table}

\* C7 as stated: a compute_metrics_daily call that repeats the latest one
\* with no raw data added leaves every row of metrics_daily identical in all
\* its columns.
C7_RepeatLeavesRowsIdentical ==
    [][MetricsCommitStep /\ RepeatsLastAgg
        => db'.metrics_daily = db.metrics_daily]_vars

\* C7 amended: such a call leaves every row identical in all its derived
\* columns (every column but updated_at, which the upsert sets anew).
C7_RepeatLeavesDerivedColumnsIdentical ==
    [][MetricsCommitStep /\ RepeatsLastAgg
        => Derived(db'.metrics_daily) = Derived(db.metrics_daily)]_vars

C7_Witness ==
    /\ pc = "BuildFeatures"
    /\ lastAgg.n = 2
    /\ Cardinality(db.metrics_daily) > 1
    /\ \E m \in db.metrics_daily : m.builds > 1

\* Day d lies in the window of compute_metrics_daily(w) run on day D.
InWindow(d, w, D) == IF w = 0 THEN d <= D ELSE d >= D - w /\ d <= D

\* The rows of metrics_daily the run in progress has created or overwritten.
Touched(table) == {m \in table : m.updated_at = CurrentTimestamp}

\* C8: once compute_metrics_daily(window) has returned, the rows it created
\* or overwrote are exactly those of the (job, day) pairs with raw job events
\* whose day lies in the window.
C8_TouchesExactlyTheWindow ==
    pc = "BuildFeatures"
        => {<<m.job_name, m.day>> : m \in Touched(db.metrics_daily)}
             = {<<r.name, Day(r.created_at)>> :
                    r \in {q \in db.jobs_raw :
                             InWindow(Day(q.created_at), window, today)}}

\* C9: once compute_metrics_daily(window) has returned, every (job, day) with
\* raw job events whose day lies in the window has a row whose builds, fails
\* and max_retries are those of all stored events of that job and day.
C9_RowIsAggregateOfStoredEvents ==
    pc = "BuildFeatures"
        => \A r \in db.jobs_raw :
             InWindow(Day(r.created_at), window, today)
               => LET g == {q \in db.jobs_raw :
                              /\ q.project_id = r.project_id
                              /\ q.name = r.name
                              /\ Day(q.created_at) = Day(r.created_at)}
                  IN  \E m \in db.metrics_daily :
                        /\ m.project_id = r.project_id
                        /\ m.job_name = r.name
                        /\ m.day = Day(r.created_at)
                        /\ m.builds = Cardinality({q \in g :
                              q.status \in {"success", "failed"}})
                        /\ m.fails = Cardinality({q \in g :
                              q.status = "failed"})
                        /\ \E q \in g : m.max_retries = q.retry_count
                        /\ \A q \in g : m.max_retries >= q.retry_count

\* The failed job of id 1 ingested twice in one batch: one row, builds = 1,
\* fails = 1.
C9_Witness ==
    /\ pc = "BuildFeatures"
    /\ Cardinality({e \in batch : e.id = 1}) = 2
    /\ Cardinality({r \in db.jobs_raw : r.id = 1}) = 1
    /\ \E m \in db.metrics_daily :
          /\ m.job_name = "test" /\ m.day = 1
          /\ m.builds = 1 /\ m.fails = 1

FeaturesCommitStep == pc = "WriteOffline" /\ pc' = "Done"

\* C10: features_online never holds two rows of one entity_key; the commit of
\* build_features leaves, for every entity of its feature_list, the row with
\* that call's feature_version and payload, and every other row as it was;
\* no other step changes the table.
C10_OnlineHoldsLatestVector ==
    [][/\ \A r1, r2 \in db'.features_online :
            r1.entity_key = r2.entity_key => r1 = r2
       /\ FeaturesCommitStep
            => /\ \A f \in computed : \E r \in db'.features_online :
                    /\ r.entity_key = f.entity_key
                    /\ r.feature_version = f.feature_version
                    /\ r.payload = f.payload
               /\ \A r \in db'.features_online :
                    (\A f \in computed : f.entity_key # r.entity_key)
                        => r \in db.features_online
       /\ ~FeaturesCommitStep
            => db'.features_online = db.features_online]_vars

C10_Witness ==
    /\ pc = "Done"
    /\ \E r \in snap.features_online : \E f \in computed :
          /\ r.entity_key = f.entity_key
          /\ r.feature_version # f.feature_version
          /\ r.payload # f.payload
          /\ r \notin db.features_online

\* C11: the offline store keeps one row per (entity_key, feature_version,
\* event_time): no step removes the row of an event_time it held.
C11_OfflineAccumulatesPerEventTime ==
    [][\A r \in db.features_offline : \E q \in db'.features_offline :
          /\ q.entity_key = r.entity_key
          /\ q.feature_version = r.feature_version
          /\ q.event_time = r.event_time]_vars

\* The sum of an integer column over a set of rows.
RECURSIVE TotalOf(_, _)
TotalOf(rows, col) ==
    IF rows = {} THEN 0
    ELSE LET r == CHOOSE x \in rows : TRUE
         IN  r[col] + TotalOf(rows \ {r}, col)

\* The metrics_daily rows of an entity that lie in the feature window of the
\* run in progress.
EntityWindowRows(entity_key) ==
    {m \in db.metrics_daily :
        /\ <<m.project_id, m.job_name>> = entity_key
        /\ m.day <= today
        /\ window # 0 => m.day >= today - FeatureWindowDays}

\* C12: every feature vector a completed build_features has written carries
\* fail_rate = fails / (builds + 1), fails and builds being the sums over the
\* entity's metrics_daily rows of the feature window; it is 0 when builds is
\* 0, and 2/11 for builds = 10 and fails = 2.
C12_FailRateSmoothed ==
    /\ fail_rate(2, 10) = <<2, 11>>
    /\ pc = "Done"
        => \A f \in computed :
            \E r \in db.features_offline : \E o \in db.features_online :
              LET builds == TotalOf(EntityWindowRows(f.entity_key), "builds")
                  fails == TotalOf(EntityWindowRows(f.entity_key), "fails")
                  rate == r.payload.fail_rate
              IN  /\ r.entity_key = f.entity_key
                  /\ r.feature_version = f.feature_version
                  /\ o.entity_key = f.entity_key
                  /\ o.payload.fail_rate = rate
                  /\ rate[2] > 0
                  /\ rate[1] * (builds + 1) = fails * rate[2]
                  /\ builds = 0 => rate = <<0, 1>>

\* A completed build_features with one entity of builds = 2, fails = 1 and
\* another of builds = 0.
C12_Witness ==
    /\ pc = "Done"
    /\ \E f \in computed :
          /\ TotalOf(EntityWindowRows(f.entity_key), "builds") = 2
          /\ f.payload.fail_rate = <<1, 3>>
    /\ \E f \in computed :
          /\ TotalOf(EntityWindowRows(f.entity_key), "builds") = 0
          /\ f.payload.fail_rate = <<0, 1>>

\* C13: in the committed tables every features_online row has a
\* features_offline row of its entity_key and feature_version with the same
\* payload, whatever calls of build_features completed or failed before.
C13_OnlineOfflineConsistent ==
    \A o \in db.features_online : \E f \in db.features_offline :
        /\ f.entity_key = o.entity_key
        /\ f.feature_version = o.feature_version
        /\ f.payload = o.payload

\* A build_features that failed between the offline and the online write of
\* entity whose rows an earlier call had committed.
C13_Witness ==
    /\ pc = "Failed"
    /\ failedAt.pc = "WriteOnline"
    /\ \E o \in db.features_online : \E f \in snap.features_offline :
          /\ f.entity_key = o.entity_key
          /\ f.feature_version = o.feature_version

\* The stage of the run a position lies in: loading a source covers its load,
\* its append and its watermark; Aggregate covers the metrics upserts and
\* BuildFeatures the feature writes.
StageOf(p) ==
    CASE p \in {"LoadPipelines", "AppendPipelines", "WatermarkPipelines"}
            -> "LoadPipelines"
      [] p \in {"LoadJobs", "AppendJobs", "WatermarkJobs"} -> "LoadJobs"
      [] p \in {"Aggregate", "UpsertMetrics"} -> "Aggregate"
      [] p \in {"BuildFeatures", "WriteOffline", "WriteOnline"}
            -> "BuildFeatures"
      [] OTHER -> p

StageOrder ==
    <<"Idle", "LoadPipelines", "LoadJobs", "Aggregate", "BuildFeatures", "Done">>

StageRank(p) == CHOOSE i \in 1..Len(StageOrder) : StageOrder[i] = StageOf(p)

RunningStages == {"LoadPipelines", "LoadJobs", "Aggregate", "BuildFeatures"}

\* C14: a step of a run stays in its stage, enters the next stage of the
\* order Idle, LoadPipelines, LoadJobs, Aggregate, BuildFeatures, Done, or
\* enters Failed, which every running stage can; from Done and from Failed
\* the only step is the end of the run, which changes no table.
C14_StagesInOrder ==
    [][/\ StageOf(pc) \in RunningStages
            => /\ ENABLED Fail
               /\ \/ pc' = "Failed"
                  \/ StageOf(pc') = StageOf(pc)
                  \/ pc' # "Failed" /\ StageRank(pc') = StageRank(pc) + 1
       /\ pc = "Idle" => pc' \in {"Idle", "LoadPipelines"}
       /\ pc \in {"Done", "Failed"} => pc' = "Idle" /\ db' = db]_vars

\* A run that went through every stage with input for each.
C14_Witness ==
    /\ pc = "Done"
    /\ batch # {}
    /\ db.pipelines_raw # {}
    /\ db.metrics_daily # {}
    /\ computed # {}

\* C15: a run that ends in Failed has printed its statistics so far and its
\* process exits with a non-zero status; a run that ends in Done exits with
\* status 0.
C15_FailedRunReportsAndExitsNonZero ==
    [][/\ pc = "Failed" /\ pc' = "Idle"
            => /\ summary # <<>>
               /\ exit_code' # <<>> /\ exit_code' # <<0>>
       /\ pc = "Done" /\ pc' = "Idle" => exit_code' = <<0>>]_vars

\* C16: a run that has failed has left the watermark of every source as it
\* was when the run began.
C16_FailedRunKeepsWatermarks ==
    pc = "Failed"
        => db.processing_watermarks = atStart.processing_watermarks

\* append_raw_to_db over a whole batch, in the order of its rows.
RECURSIVE AppendAll(_, _, _)
AppendAll(table, source, S) ==
    IF S = {} THEN table
    ELSE LET e == FirstEvent(source, S)
         IN  AppendAll(InsertRaw(table, RawRow(source, e)), source, S \ {e})

\* One source of an uninterrupted run: load, append, watermark.
SourceDone(tables, source) ==
    LET df == load_new_raw(source, get_watermark(tables, source))
        stored == [tables EXCEPT ![RawTable(source)] = AppendAll(@, source, df)]
    IN  IF df = {} THEN tables
        ELSE update_watermark(stored, source,
                              SetMax({EventTs(source, e) : e \in df}))

RECURSIVE UpsertMetricsAll(_, _, _)
UpsertMetricsAll(table, S, ts) ==
    IF S = {} THEN table
    ELSE LET m == FirstMetric(S)
         IN  UpsertMetricsAll(UpsertMetric(table, m, ts), S \ {m}, ts)

RECURSIVE UpsertOfflineAll(_, _)
UpsertOfflineAll(table, S) ==
    IF S = {} THEN table
    ELSE LET f == FirstFeature(S)
         IN  UpsertOfflineAll(UpsertOffline(table, f), S \ {f})

RECURSIVE UpsertOnlineAll(_, _, _)
UpsertOnlineAll(table, S, ts) ==
    IF S = {} THEN table
    ELSE LET f == FirstFeature(S)
         IN  UpsertOnlineAll(UpsertOnline(table, f, ts), S \ {f}, ts)

\* The tables one uninterrupted successful run(w) leaves, begun today with
\* the given tables, the staged input as it is now and feature version fv.
UninterruptedRun(tables, w, fv, ts) ==
    LET raw == SourceDone(SourceDone(tables, "pipelines"), "jobs")
        metrics == Aggregate(MetricsWindowRows(raw, w, today))
        agg == [raw EXCEPT !.metrics_daily = UpsertMetricsAll(@, metrics, ts)]
        feature_list ==
            FeatureList(FeatureWindowRows(agg, FeatureWindow(w), today),
                        fv, today)
    IN  [agg EXCEPT
            !.features_offline = UpsertOfflineAll(@, feature_list),
            !.features_online = UpsertOnlineAll(@, feature_list, ts)]

\* The run in progress reruns, with the same staged input on the same day and
\* with the window of the metrics it committed, the run that failed last.
IsRetry == retry.n > 0 /\ (retry.w = <<>> \/ retry.w = <<window>>)

C18_MalformedEventSkipped ==
    ~(pc = "Failed" /\ failedAt.cause = "malformed")

\* C19: every stored feature payload has exactly the fields of the features
\* list of the schema of its feature_version (build_features failing rather
\* than writing any other payload).
C19_PayloadMatchesSchema ==
    \A r \in db.features_offline \cup db.features_online :
        DOMAIN r.payload = FeatureSchemas[r.feature_version]

\* C20: the watermark step of a source leaves that source's watermark at the
\* greatest timestamp of the loaded batch and the other source's as it was;
\* a load that finds no new event goes on to the next stage with no
\* watermark row changed or created; no other step changes a watermark.
C20_WatermarkIsBatchMaximum ==
    [][/\ pc \in {"WatermarkPipelines", "WatermarkJobs"} /\ pc' # "Failed"
            => LET source == SourceOf(pc)
               IN  /\ \E e \in batch :
                        /\ get_watermark(db', source) = <<EventTs(source, e)>>
                        /\ \A f \in batch :
                              EventTs(source, f) <= EventTs(source, e)
                   /\ \A other \in Sources \ {source} :
                        get_watermark(db', other) = get_watermark(db, other)
       /\ pc \in {"LoadPipelines", "LoadJobs"} /\ pc' # "Failed" /\ batch' = {}
            => /\ pc' = (IF pc = "LoadPipelines" THEN "LoadJobs" ELSE "Aggregate")
               /\ db'.processing_watermarks = db.processing_watermarks
       /\ pc \notin {"WatermarkPipelines", "WatermarkJobs"}
            => db'.processing_watermarks = db.processing_watermarks]_vars

\* A run whose pipelines load found nothing new and left the pipelines
\* watermark as it was, and whose jobs batch of several timestamps set the
\* jobs watermark.
C20_Witness ==
    /\ pc = "Aggregate"
    /\ Cardinality({e.created_at : e \in batch}) > 1
    /\ get_watermark(db, "jobs") # get_watermark(atStart, "jobs")
    /\ stats.last_ts = <<>>
    /\ staged_pipelines # {}
    /\ get_watermark(db, "pipelines") # <<>>

\* C21: the load of a source returns exactly the staged events of that source
\* whose timestamp is strictly greater than the source's watermark, and every
\* staged event when the source has no watermark.
C21_LoadNewStrictlyAfterWatermark ==
    [][(pc \in {"LoadPipelines", "LoadJobs"} /\ pc' # "Failed")
        => LET source == SourceOf(pc)
               since == get_watermark(db, source)
           IN  batch' = {e \in Staged(source) :
                            \/ since = <<>>
                            \/ EventTs(source, e) > since[1]}]_vars

\* A jobs load with a watermark: a staged job stamped exactly at the watermark
\* is left out, a later one is loaded.
C21_Witness ==
    /\ pc = "AppendJobs"
    /\ get_watermark(db, "jobs") # <<>>
    /\ \E e \in staged_jobs :
          e.created_at = get_watermark(db, "jobs")[1] /\ e \notin batch
    /\ \E e \in batch : e.created_at > get_watermark(db, "jobs")[1]

RECURSIVE FracTotalOf(_, _)
FracTotalOf(rows, col) ==
    IF rows = {} THEN <<0, 1>>
    ELSE LET r == CHOOSE x \in rows : TRUE
         IN  FracAdd(r[col][1], FracTotalOf(rows \ {r}, col))

\* x = (n / d) * y, for fractions x and y.
IsShareOf(x, n, d, y) == x[1] * d * y[2] = n * y[1] * x[2]

RowTs(source, r) == IF source = "pipelines" THEN r.updated_at ELSE r.created_at

\* C25: when a run has ended in Done, the raw table of every source that has
\* a watermark holds a row whose timestamp is at least that watermark.
C25_WatermarkNotAheadOfStoredData ==
    pc = "Done"
        => \A s \in Sources :
             get_watermark(db, s) # <<>>
               => \E r \in db[RawTable(s)] :
                     RowTs(s, r) >= get_watermark(db, s)[1]

\* C26 as stated: with two overlapping processes no step lowers or removes
\* the stored watermark of a source.
C26_OverlapNeverLowersWatermark ==
    [][\A r \in db.processing_watermarks :
          \E q \in db'.processing_watermarks :
              q.source = r.source /\ q.last_ts >= r.last_ts]_vars

\* C26 amended: with two overlapping processes the watermark of a source is
\* never removed, and it is lowered only by the watermark step of a process
\* that loaded its batch before the other process wrote that watermark (the
\* stored value is no longer the one the load read); the step stores the
\* greatest timestamp of that older batch.
C26_OnlyOverlapLowersWatermark ==
    [][\A s \in Sources :
          get_watermark(db, s) # <<>>
            => /\ get_watermark(db', s) # <<>>
               /\ get_watermark(db', s)[1] < get_watermark(db, s)[1]
                    => /\ pc \in {"WatermarkPipelines", "WatermarkJobs"}
                       /\ SourceOf(pc) = s
                       /\ get_watermark(snap, s) # get_watermark(db, s)
                       /\ get_watermark(db', s)
                            = <<SetMax({EventTs(s, e) : e \in batch})>>
      ]_vars

\* A process resumed after the other one ran from start to end has just set
\* the jobs watermark to the greatest timestamp of its older batch, below the
\* timestamp of a row the other process stored.
C26_Witness ==
    /\ pc = "Aggregate"
    /\ batch # {}
    /\ second.pc = "Idle"
    /\ runs = 2
    /\ get_watermark(db, "jobs") = <<SetMax({e.created_at : e \in batch})>>
    /\ \E r \in db.jobs_raw : r.created_at > get_watermark(db, "jobs")[1]

\* The stored raw job events of the (project, job, day) of a metrics row.
EventsOf(m) ==
    {r \in db.jobs_raw :
        /\ r.project_id = m.project_id
        /\ r.name = m.job_name
        /\ Day(r.created_at) = m.day}

\* C27: every metrics_daily row has 0 <= fails <= builds <= the number of
\* stored raw job events of its (project, job, day); builds counts at most the
\* events whose status is success or failed and fails at most those whose
\* status is failed.
C27_FailsWithinBuildsWithinEvents ==
    \A m \in db.metrics_daily :
        /\ 0 <= m.fails
        /\ m.fails <= m.builds
        /\ m.builds <= Cardinality(EventsOf(m))
        /\ m.builds <= Cardinality({r \in EventsOf(m) :
                                      r.status \in {"success", "failed"}})
        /\ m.fails <= Cardinality({r \in EventsOf(m) : r.status = "failed"})

\* A row with builds = 0 for a day whose only event was canceled, next to a
\* row with fails = 1 and builds = 2.
C27_Witness ==
    /\ \E m \in db.metrics_daily :
          /\ m.builds = 0
          /\ \E r \in EventsOf(m) : r.status = "canceled"
    /\ \E m \in db.metrics_daily : m.fails = 1 /\ m.builds = 2

\* C28: once compute_metrics_daily(window) has returned, no row it created or
\* overwrote is of a day later than today, whether window is 0 or not.
C28_NoRowAfterToday ==
    pc = "BuildFeatures"
        => \A m \in Touched(db.metrics_daily) : m.day <= today

\* C29: the rows_written a run ended in Done has printed is the number of
\* rows the raw tables hold beyond those they held when the run began.
C29_RowsWrittenCountsStoredRows ==
    pc = "Done"
        => /\ summary # <<>>
           /\ summary[1].rows_written
                = Cardinality(db.pipelines_raw \ atStart.pipelines_raw)
                    + Cardinality(db.jobs_raw \ atStart.jobs_raw)

\* C30: a step of Aggregate or of BuildFeatures leaves the raw tables and the
\* watermarks as they were; a step of LoadPipelines leaves jobs_raw and the
\* jobs watermark as they were and a step of LoadJobs leaves pipelines_raw and
\* the pipelines watermark as they were; no step of a load stage changes
\* metrics_daily, features_offline or features_online.
C30_StagesChangeOnlyTheirStores ==
    [][/\ StageOf(pc) \in {"Aggregate", "BuildFeatures"}
            => /\ db'.pipelines_raw = db.pipelines_raw
               /\ db'.jobs_raw = db.jobs_raw
               /\ db'.processing_watermarks = db.processing_watermarks
       /\ StageOf(pc) = "LoadPipelines"
            => /\ db'.jobs_raw = db.jobs_raw
               /\ get_watermark(db', "jobs") = get_watermark(db, "jobs")
       /\ StageOf(pc) = "LoadJobs"
            => /\ db'.pipelines_raw = db.pipelines_raw
               /\ get_watermark(db', "pipelines")
                    = get_watermark(db, "pipelines")
       /\ StageOf(pc) \in {"LoadPipelines", "LoadJobs"}
            => /\ db'.metrics_daily = db.metrics_daily
               /\ db'.features_offline = db.features_offline
               /\ db'.features_online = db.features_online]_vars

\* A run that began with every table filled and has, in each of its stages,
\* changed the stores of that stage.
C30_Witness ==
    /\ pc = "Done"
    /\ atStart.features_online # {}
    /\ atStart.pipelines_raw # db.pipelines_raw
    /\ atStart.jobs_raw # db.jobs_raw
    /\ get_watermark(atStart, "pipelines") # get_watermark(db, "pipelines")
    /\ get_watermark(atStart, "jobs") # get_watermark(db, "jobs")
    /\ atStart.metrics_daily # db.metrics_daily
    /\ atStart.features_offline # db.features_offline
====
